---- MODULE Spec2Model ----
(***************************************************************************)
(* NistPqcAes256CtrRng (src/lib.rs): the seeded AES-256-CTR generator that *)
(* reproduces the random byte stream of the NIST PQC known-answer tests.   *)
(*                                                                         *)
(* Bytes are the integers 0..255 and byte arrays are sequences.  The       *)
(* counter-mode primitive Aes256Ctr = ctr::Ctr128BE<aes::Aes256> is        *)
(* computed bit for bit (FIPS 197 AES-256, 128-bit big-endian counter), so *)
(* that the known-answer vectors of the crate's tests are values of this   *)
(* model.  u32 and u64 values exceed the integers TLC computes with and    *)
(* are held as their base-256 digits, most significant digit first.        *)
(*                                                                         *)
(* Three specifications share the actions:                                 *)
(*   Spec      one generator, from its construction (by any path, failed   *)
(*             attempts included) through at most MaxCalls output calls;   *)
(*   SpecCtor  two generator slots, construction operations only;          *)
(*   SpecPair  two generators constructed from one seed, each driven by    *)
(*             at most MaxCalls fill_bytes requests on zeroed buffers.     *)
(***************************************************************************)
EXTENDS Integers, Sequences, FiniteSets, TLC

KEY_LENGTH == 32

V_LENGTH == 16

SEED_LENGTH == KEY_LENGTH + V_LENGTH

\* Output calls per generator.
MaxCalls == 2

\* The generator slots of the caller.
Rngs == {1, 2}

VARIABLES
  seed,   \* seed[g]: the Seed value the caller holds for slot g (None or Some)
  rng,    \* rng[g]: the generator in slot g, [key, v] (None or Some)
  ctor,   \* ctor[g]: the last construction operation of slot g, its input and result
  hist    \* hist[g]: the output calls made on rng[g], oldest first

vars == <<seed, rng, ctor, hist>>

None == <<>>

Some(x) == <<x>>

Get(o) == o[1]

(* ----- byte arrays ----------------------------------------------------- *)

\* A sequence with every element evaluated.
Bytes(f) == f \o <<>>

\* [b; n]
Repeat(b, n) == Bytes([i \in 1..n |-> b])

Zeros(n) == Repeat(0, n)

\* dst.copy_from_slice(src), for slices of one length.
copy_from_slice(dst, src) == Bytes([i \in 1..Len(dst) |-> src[i]])

(* ----- aes::Aes256 (FIPS 197), encryption direction -------------------- *)

\* The S-box, indexed by byte + 1.
SBOX ==
  <<
      99, 124, 119, 123, 242, 107, 111, 197,  48,   1, 103,  43, 254, 215, 171, 118,
     202, 130, 201, 125, 250,  89,  71, 240, 173, 212, 162, 175, 156, 164, 114, 192,
     183, 253, 147,  38,  54,  63, 247, 204,  52, 165, 229, 241, 113, 216,  49,  21,
       4, 199,  35, 195,  24, 150,   5, 154,   7,  18, 128, 226, 235,  39, 178, 117,
       9, 131,  44,  26,  27, 110,  90, 160,  82,  59, 214, 179,  41, 227,  47, 132,
      83, 209,   0, 237,  32, 252, 177,  91, 106, 203, 190,  57,  74,  76,  88, 207,
     208, 239, 170, 251,  67,  77,  51, 133,  69, 249,   2, 127,  80,  60, 159, 168,
      81, 163,  64, 143, 146, 157,  56, 245, 188, 182, 218,  33,  16, 255, 243, 210,
     205,  12,  19, 236,  95, 151,  68,  23, 196, 167, 126,  61, 100,  93,  25, 115,
      96, 129,  79, 220,  34,  42, 144, 136,  70, 238, 184,  20, 222,  94,  11, 219,
     224,  50,  58,  10,  73,   6,  36,  92, 194, 211, 172,  98, 145, 149, 228, 121,
     231, 200,  55, 109, 141, 213,  78, 169, 108,  86, 244, 234, 101, 122, 174,   8,
     186, 120,  37,  46,  28, 166, 180, 198, 232, 221, 116,  31,  75, 189, 139, 138,
     112,  62, 181, 102,  72,   3, 246,  14,  97,  53,  87, 185, 134, 193,  29, 158,
     225, 248, 152,  17, 105, 217, 142, 148, 155,  30, 135, 233, 206,  85,  40, 223,
     140, 161, 137,  13, 191, 230,  66, 104,  65, 153,  45,  15, 176,  84, 187,  22
  >>
\* Multiplication by x in GF(2^8) modulo x^8 + x^4 + x^3 + x + 1, indexed by byte + 1.
XTIME ==
  <<
       0,   2,   4,   6,   8,  10,  12,  14,  16,  18,  20,  22,  24,  26,  28,  30,
      32,  34,  36,  38,  40,  42,  44,  46,  48,  50,  52,  54,  56,  58,  60,  62,
      64,  66,  68,  70,  72,  74,  76,  78,  80,  82,  84,  86,  88,  90,  92,  94,
      96,  98, 100, 102, 104, 106, 108, 110, 112, 114, 116, 118, 120, 122, 124, 126,
     128, 130, 132, 134, 136, 138, 140, 142, 144, 146, 148, 150, 152, 154, 156, 158,
     160, 162, 164, 166, 168, 170, 172, 174, 176, 178, 180, 182, 184, 186, 188, 190,
     192, 194, 196, 198, 200, 202, 204, 206, 208, 210, 212, 214, 216, 218, 220, 222,
     224, 226, 228, 230, 232, 234, 236, 238, 240, 242, 244, 246, 248, 250, 252, 254,
      27,  25,  31,  29,  19,  17,  23,  21,  11,   9,  15,  13,   3,   1,   7,   5,
      59,  57,  63,  61,  51,  49,  55,  53,  43,  41,  47,  45,  35,  33,  39,  37,
      91,  89,  95,  93,  83,  81,  87,  85,  75,  73,  79,  77,  67,  65,  71,  69,
     123, 121, 127, 125, 115, 113, 119, 117, 107, 105, 111, 109,  99,  97, 103, 101,
     155, 153, 159, 157, 147, 145, 151, 149, 139, 137, 143, 141, 131, 129, 135, 133,
     187, 185, 191, 189, 179, 177, 183, 181, 171, 169, 175, 173, 163, 161, 167, 165,
     219, 217, 223, 221, 211, 209, 215, 213, 203, 201, 207, 205, 195, 193, 199, 197,
     251, 249, 255, 253, 243, 241, 247, 245, 235, 233, 239, 237, 227, 225, 231, 229
  >>
\* Exclusive or of two 4-bit values a, b, at index 16 * a + b + 1.
XOR4 ==
  <<
       0,   1,   2,   3,   4,   5,   6,   7,   8,   9,  10,  11,  12,  13,  14,  15,
       1,   0,   3,   2,   5,   4,   7,   6,   9,   8,  11,  10,  13,  12,  15,  14,
       2,   3,   0,   1,   6,   7,   4,   5,  10,  11,   8,   9,  14,  15,  12,  13,
       3,   2,   1,   0,   7,   6,   5,   4,  11,  10,   9,   8,  15,  14,  13,  12,
       4,   5,   6,   7,   0,   1,   2,   3,  12,  13,  14,  15,   8,   9,  10,  11,
       5,   4,   7,   6,   1,   0,   3,   2,  13,  12,  15,  14,   9,   8,  11,  10,
       6,   7,   4,   5,   2,   3,   0,   1,  14,  15,  12,  13,  10,  11,   8,   9,
       7,   6,   5,   4,   3,   2,   1,   0,  15,  14,  13,  12,  11,  10,   9,   8,
       8,   9,  10,  11,  12,  13,  14,  15,   0,   1,   2,   3,   4,   5,   6,   7,
       9,   8,  11,  10,  13,  12,  15,  14,   1,   0,   3,   2,   5,   4,   7,   6,
      10,  11,   8,   9,  14,  15,  12,  13,   2,   3,   0,   1,   6,   7,   4,   5,
      11,  10,   9,   8,  15,  14,  13,  12,   3,   2,   1,   0,   7,   6,   5,   4,
      12,  13,  14,  15,   8,   9,  10,  11,   4,   5,   6,   7,   0,   1,   2,   3,
      13,  12,  15,  14,   9,   8,  11,  10,   5,   4,   7,   6,   1,   0,   3,   2,
      14,  15,  12,  13,  10,  11,   8,   9,   6,   7,   4,   5,   2,   3,   0,   1,
      15,  14,  13,  12,  11,  10,   9,   8,   7,   6,   5,   4,   3,   2,   1,   0
  >>

XorNib(a, b) == XOR4[16 * a + b + 1]

\* Exclusive or of two bytes a, b, at index 256 * a + b + 1.
XOR8 ==
  Bytes([i \in 1..65536 |->
     16 * XorNib(((i - 1) \div 256) \div 16, ((i - 1) % 256) \div 16)
        + XorNib(((i - 1) \div 256) % 16, ((i - 1) % 256) % 16)])

Xor(a, b) == XOR8[256 * a + b + 1]

XorBytes(a, b) == Bytes([i \in 1..Len(a) |-> Xor(a[i], b[i])])

Sub(a) == SBOX[a + 1]

Mul2(a) == XTIME[a + 1]

Mul3(a) == Xor(XTIME[a + 1], a)

\* The key schedule of AES-256: 60 words of 4 bytes, as 240 bytes.  Word i is
\* word i-8 xor f(word i-1), with rc the round constant of the next multiple of 8.
RECURSIVE ExpandFrom(_, _, _)
ExpandFrom(w, i, rc) ==
  IF Len(w) = 240 THEN w
  ELSE LET p == SubSeq(w, 4 * i - 3, 4 * i)
           q == SubSeq(w, 4 * i - 31, 4 * i - 28)
           t == IF i % 8 = 0
                  THEN <<Xor(Sub(p[2]), rc), Sub(p[3]), Sub(p[4]), Sub(p[1])>>
                ELSE IF i % 8 = 4
                  THEN <<Sub(p[1]), Sub(p[2]), Sub(p[3]), Sub(p[4])>>
                ELSE p
       IN ExpandFrom(w \o XorBytes(q, t), i + 1, IF i % 8 = 0 THEN Mul2(rc) ELSE rc)

KeyExpansion(key) == ExpandFrom(key, 8, 1)

RoundKey(w, r) == SubSeq(w, 16 * r + 1, 16 * r + 16)

SubBytes(s) ==
  <<Sub(s[1]), Sub(s[2]), Sub(s[3]), Sub(s[4]), Sub(s[5]), Sub(s[6]), Sub(s[7]), Sub(s[8]),
    Sub(s[9]), Sub(s[10]), Sub(s[11]), Sub(s[12]), Sub(s[13]), Sub(s[14]), Sub(s[15]),
    Sub(s[16])>>

\* The state is column-major: byte i (from 0) is row i % 4 of column i \div 4, and
\* row r rotates left by r columns.
ShiftRows(s) ==
  <<s[1], s[6], s[11], s[16], s[5], s[10], s[15], s[4],
    s[9], s[14], s[3], s[8], s[13], s[2], s[7], s[12]>>

MixColumn(a0, a1, a2, a3) ==
  <<Xor(Xor(Mul2(a0), Mul3(a1)), Xor(a2, a3)),
    Xor(Xor(Mul2(a1), Mul3(a2)), Xor(a3, a0)),
    Xor(Xor(Mul2(a2), Mul3(a3)), Xor(a0, a1)),
    Xor(Xor(Mul2(a3), Mul3(a0)), Xor(a1, a2))>>

MixColumns(s) ==
  MixColumn(s[1], s[2], s[3], s[4]) \o MixColumn(s[5], s[6], s[7], s[8])
    \o MixColumn(s[9], s[10], s[11], s[12]) \o MixColumn(s[13], s[14], s[15], s[16])

\* Rounds st.r .. 14 on the state st.s; the last round has no MixColumns.
RECURSIVE Rounds(_, _)
Rounds(w, st) ==
  IF st.r = 14 THEN XorBytes(ShiftRows(SubBytes(st.s)), RoundKey(w, 14))
  ELSE Rounds(w, [s |-> XorBytes(MixColumns(ShiftRows(SubBytes(st.s))), RoundKey(w, st.r)),
                  r |-> st.r + 1])

\* One block encrypted under the expanded key w.
EncryptBlock(w, block) == Rounds(w, [s |-> XorBytes(block, RoundKey(w, 0)), r |-> 1])

(* ----- ctr::Ctr128BE<aes::Aes256> -------------------------------------- *)

\* The counter of Ctr128LE: iv read as a little-endian integer.
RECURSIVE AddLE(_, _, _)
AddLE(iv, n, i) ==
  IF i = 0 \/ n = 0 THEN iv
  ELSE LET j == V_LENGTH + 1 - i
           t == iv[j] + (n % 256)
       IN AddLE([iv EXCEPT ![j] = t % 256], (n \div 256) + (t \div 256), i - 1)

\* iv + n, iv read as a 128-bit big-endian integer, wrapping; i is the byte the
\* carry n is added to.
RECURSIVE AddBE(_, _, _)
AddBE(iv, n, i) ==
  IF i = 0 \/ n = 0 THEN iv
  ELSE LET t == iv[i] + (n % 256)
       IN AddBE([iv EXCEPT ![i] = t % 256], (n \div 256) + (t \div 256), i - 1)

\* Keystream block b: the encryption of the counter block iv + b.
KeystreamBlock(c, b) == EncryptBlock(c.w, AddBE(c.iv, b, V_LENGTH))

RECURSIVE KeystreamBlocks(_, _, _)
KeystreamBlocks(c, b, last) ==
  IF b > last THEN <<>> ELSE KeystreamBlock(c, b) \o KeystreamBlocks(c, b + 1, last)

\* Keystream bytes pos .. pos+n-1 (pos counts from 0).
Keystream(c, pos, n) ==
  IF n = 0 THEN <<>>
  ELSE LET b0 == pos \div 16
           ks == KeystreamBlocks(c, b0, (pos + n - 1) \div 16)
       IN SubSeq(ks, pos - 16 * b0 + 1, pos - 16 * b0 + n)

\* Aes256Ctr::new(key, iv): the expanded key, the initial counter block and the
\* byte position in the keystream.
Aes256Ctr_new(key, iv) == [w |-> KeyExpansion(key), iv |-> iv, pos |-> 0]

seek(c, pos) == [c EXCEPT !.pos = pos]

current_pos(c) == c.pos

\* cipher.apply_keystream(buf): buf xor the keystream at the position, which advances.
apply_keystream(c, buf) ==
  [cipher |-> [c EXCEPT !.pos = c.pos + Len(buf)],
   buf |-> XorBytes(buf, Keystream(c, c.pos, Len(buf)))]

(* ----- Result and the integer conversions ------------------------------ *)

Ok(x) == [ok |-> TRUE, val |-> x]

Err == [ok |-> FALSE, val |-> <<>>]

\* u32::from_le_bytes / u64::from_le_bytes: buf[0] is the least significant byte.
\* The value is given by its base-256 digits, most significant first.
from_le_bytes(buf) == Bytes([i \in 1..Len(buf) |-> buf[Len(buf) + 1 - i]])

from_be_bytes(buf) == buf

\* The base-256 digit of weight 256^i of the integer x.
Digit(x, i) == x[Len(x) - i]

(* ----- Seed ------------------------------------------------------------ *)

\* Seed::default()
Seed_default == Zeros(SEED_LENGTH)

\* impl From<[u8; SEED_LENGTH]> for Seed
Seed_from(value) == value

\* A length check that lets a longer slice through and keeps its first 48 bytes.
Seed_try_from_at_least(value) ==
  IF Len(value) >= SEED_LENGTH
    THEN Ok(copy_from_slice(Zeros(SEED_LENGTH), value))
    ELSE Err

\* The zeroed buffer returned without the copy.
Seed_try_from_no_copy(value) ==
  IF Len(value) = SEED_LENGTH THEN Ok(Zeros(SEED_LENGTH)) ELSE Err

\* impl TryFrom<&[u8]> for Seed
Seed_try_from(value) ==
  IF Len(value) = SEED_LENGTH
    THEN Ok(copy_from_slice(Zeros(SEED_LENGTH), value))
    ELSE Err

(* ----- NistPqcAes256CtrRng --------------------------------------------- *)

\* Seeding without the skip of the first keystream block.
from_seed_no_skip(seed_) ==
  LET cipher == Aes256Ctr_new(Zeros(KEY_LENGTH), Zeros(V_LENGTH))
      s == apply_keystream(cipher, seed_).buf
  IN [key |-> SubSeq(s, 1, KEY_LENGTH), v |-> SubSeq(s, KEY_LENGTH + 1, SEED_LENGTH)]

\* SeedableRng::from_seed
from_seed(seed_) ==
  LET cipher == seek(Aes256Ctr_new(Zeros(KEY_LENGTH), Zeros(V_LENGTH)), 16)
      s == apply_keystream(cipher, seed_).buf
  IN [key |-> copy_from_slice(Zeros(KEY_LENGTH), SubSeq(s, 1, KEY_LENGTH)),
      v |-> copy_from_slice(Zeros(V_LENGTH), SubSeq(s, KEY_LENGTH + 1, SEED_LENGTH))]

\* impl From<[u8; SEED_LENGTH]> for NistPqcAes256CtrRng
Rng_from(value) == from_seed(Seed_from(value))

\* impl From<&[u8; SEED_LENGTH]> for NistPqcAes256CtrRng
Rng_from_ref(value) == Rng_from(value)

\* impl TryFrom<&[u8]> for NistPqcAes256CtrRng: Seed::try_from(value).map(Self::from_seed)
Rng_try_from(value) ==
  LET r == Seed_try_from(value)
  IN IF r.ok THEN Ok(from_seed(r.val)) ELSE r

\* The new (key, v) and the buffer, from the cipher at the end of the output.
Reseed(c, buf) ==
  LET k == apply_keystream(c, Zeros(KEY_LENGTH))
      v == apply_keystream(k.cipher, Zeros(V_LENGTH))
  IN [self |-> [key |-> k.buf, v |-> v.buf], dest |-> buf]

\* One cipher context shared by every generator (that of slot 1) in place of self.
fill_bytes_static(self, dest) ==
  LET ctx == IF rng[1] # None THEN Get(rng[1]) ELSE self
      r == apply_keystream(seek(Aes256Ctr_new(ctx.key, ctx.v), 16), dest)
  IN Reseed(seek(r.cipher,
                 ((current_pos(r.cipher) + (V_LENGTH - 1)) \div V_LENGTH) * V_LENGTH),
            r.buf)

\* The new state taken right behind the output, with no seek to a block boundary.
fill_bytes_no_round(self, dest) ==
  LET r == apply_keystream(seek(Aes256Ctr_new(self.key, self.v), 16), dest)
  IN Reseed(r.cipher, r.buf)

\* A whole block skipped even when the position is on a block boundary.
fill_bytes_skip_always(self, dest) ==
  LET r == apply_keystream(seek(Aes256Ctr_new(self.key, self.v), 16), dest)
  IN Reseed(seek(r.cipher, ((current_pos(r.cipher) + V_LENGTH) \div V_LENGTH) * V_LENGTH),
            r.buf)

\* v drawn from the keystream before key.
fill_bytes_v_first(self, dest) ==
  LET r == apply_keystream(seek(Aes256Ctr_new(self.key, self.v), 16), dest)
      c == seek(r.cipher,
                ((current_pos(r.cipher) + (V_LENGTH - 1)) \div V_LENGTH) * V_LENGTH)
      v == apply_keystream(c, Zeros(V_LENGTH))
      k == apply_keystream(v.cipher, Zeros(KEY_LENGTH))
  IN [self |-> [key |-> k.buf, v |-> v.buf], dest |-> r.buf]

\* RngCore::fill_bytes: the generator after the call and the buffer after the call.
fill_bytes(self, dest) ==
  LET r == apply_keystream(seek(Aes256Ctr_new(self.key, self.v), 16), dest)
  IN Reseed(seek(r.cipher,
                 ((current_pos(r.cipher) + (V_LENGTH - 1)) \div V_LENGTH) * V_LENGTH),
            r.buf)

\* The buffer read with its first byte the most significant.
next_u32_be(self) ==
  LET r == fill_bytes(self, Repeat(0, 4))
  IN [self |-> r.self, dest |-> r.dest, ret |-> from_be_bytes(r.dest)]

\* RngCore::next_u32
next_u32(self) ==
  LET r == fill_bytes(self, Repeat(0, 4))
  IN [self |-> r.self, dest |-> r.dest, ret |-> from_le_bytes(r.dest)]

\* RngCore::next_u64
next_u64(self) ==
  LET r == fill_bytes(self, Repeat(0, 8))
  IN [self |-> r.self, dest |-> r.dest, ret |-> from_le_bytes(r.dest)]

\* RngCore::try_fill_bytes
try_fill_bytes(self, dest) ==
  LET r == fill_bytes(self, dest)
  IN [self |-> r.self, dest |-> r.dest, result |-> Ok(<<>>)]

(* ----- the caller's inputs --------------------------------------------- *)

\* The all-zero seed of the tests and the seed of the crate's examples,
\* b"012345678901234567890123456789012345678901234567".
ZeroSeed == Zeros(SEED_LENGTH)

DocSeed == Bytes([i \in 1..SEED_LENGTH |-> 48 + ((i - 1) % 10)])

Arrays == {ZeroSeed, DocSeed}

\* Slices of the lengths 0, 47, 48 and 49.
Slices == Arrays \cup {<<>>, SubSeq(DocSeed, 1, SEED_LENGTH - 1), DocSeed \o <<48>>}

\* Buffers handed to fill_bytes: empty, one zeroed block, 17 bytes of 0xff.
FillDests == {<<>>, Zeros(16), Repeat(255, 17)}

\* Buffers handed to try_fill_bytes: two zeroed blocks.
TryFillDests == {Zeros(32)}

\* Zeroed buffers of 4, 8 and 16 bytes.
PairDests == {Zeros(4), Zeros(8), Zeros(16)}

(* ----- the state machine ----------------------------------------------- *)

NoCtor == [op |-> "", input |-> <<>>, result |-> ""]

Init ==
  /\ seed = [g \in Rngs |-> None]
  /\ rng = [g \in Rngs |-> None]
  /\ ctor = [g \in Rngs |-> NoCtor]
  /\ hist = [g \in Rngs |-> <<>>]

\* Two generators constructed independently from one seed.
InitPair ==
  \E s \in Arrays :
    /\ seed = [g \in Rngs |-> None]
    /\ rng = [g \in Rngs |-> Some(from_seed(Seed_from(s)))]
    /\ ctor = [g \in Rngs |-> [op |-> "from_seed", input |-> s, result |-> "Ok"]]
    /\ hist = [g \in Rngs |-> <<>>]

\* let seed = Seed::default();
SeedDefault(g) ==
  /\ rng[g] = None
  /\ seed' = [seed EXCEPT ![g] = Some(Seed_default)]
  /\ ctor' = [ctor EXCEPT ![g] = [op |-> "Seed::default", input |-> <<>>, result |-> "Ok"]]
  /\ UNCHANGED <<rng, hist>>

\* let seed = Seed::from(value);
SeedFrom(g, value) ==
  /\ rng[g] = None
  /\ seed' = [seed EXCEPT ![g] = Some(Seed_from(value))]
  /\ ctor' = [ctor EXCEPT ![g] = [op |-> "Seed::from", input |-> value, result |-> "Ok"]]
  /\ UNCHANGED <<rng, hist>>

\* let seed = Seed::try_from(value);  An Err leaves the caller without a seed.
SeedTryFrom(g, value) ==
  /\ rng[g] = None
  /\ LET r == Seed_try_from(value)
     IN /\ seed' = [seed EXCEPT ![g] = IF r.ok THEN Some(r.val) ELSE None]
        /\ ctor' = [ctor EXCEPT ![g] = [op |-> "Seed::try_from", input |-> value,
                                        result |-> IF r.ok THEN "Ok" ELSE "Err"]]
  /\ UNCHANGED <<rng, hist>>

\* let rng = NistPqcAes256CtrRng::from_seed(seed);  The seed is moved into the call.
FromSeed(g) ==
  /\ rng[g] = None
  /\ seed[g] # None
  /\ rng' = [rng EXCEPT ![g] = Some(from_seed(Get(seed[g])))]
  /\ seed' = [seed EXCEPT ![g] = None]
  /\ ctor' = [ctor EXCEPT ![g] = [op |-> "from_seed", input |-> Get(seed[g]),
                                  result |-> "Ok"]]
  /\ UNCHANGED hist

\* let rng = NistPqcAes256CtrRng::from(value);
From(g, value) ==
  /\ rng[g] = None
  /\ rng' = [rng EXCEPT ![g] = Some(Rng_from(value))]
  /\ seed' = [seed EXCEPT ![g] = None]
  /\ ctor' = [ctor EXCEPT ![g] = [op |-> "from", input |-> value, result |-> "Ok"]]
  /\ UNCHANGED hist

\* let rng = NistPqcAes256CtrRng::from(&value);
FromRef(g, value) ==
  /\ rng[g] = None
  /\ rng' = [rng EXCEPT ![g] = Some(Rng_from_ref(value))]
  /\ seed' = [seed EXCEPT ![g] = None]
  /\ ctor' = [ctor EXCEPT ![g] = [op |-> "from_ref", input |-> value, result |-> "Ok"]]
  /\ UNCHANGED hist

\* let rng = NistPqcAes256CtrRng::try_from(value);  An Err constructs nothing.
TryFrom(g, value) ==
  /\ rng[g] = None
  /\ LET r == Rng_try_from(value)
     IN /\ rng' = [rng EXCEPT ![g] = IF r.ok THEN Some(r.val) ELSE None]
        /\ ctor' = [ctor EXCEPT ![g] = [op |-> "try_from", input |-> value,
                                        result |-> IF r.ok THEN "Ok" ELSE "Err"]]
  /\ seed' = [seed EXCEPT ![g] = None]
  /\ UNCHANGED hist

\* The record of one output call: the buffer before (dest) and after (out), the
\* integer returned (ret), the Result returned (result) and the generator before.
CallRecord(g, op, dest, out, ret, result) ==
  [op |-> op, dest |-> dest, out |-> out, ret |-> ret, result |-> result,
   pre |-> Get(rng[g])]

\* rng.fill_bytes(&mut dest);
FillBytes(g, dest) ==
  /\ rng[g] # None
  /\ Len(hist[g]) < MaxCalls
  /\ LET r == fill_bytes(Get(rng[g]), dest)
     IN /\ rng' = [rng EXCEPT ![g] = Some(r.self)]
        /\ hist' = [hist EXCEPT ![g] =
                      Append(@, CallRecord(g, "fill_bytes", dest, r.dest, <<>>, ""))]
  /\ UNCHANGED <<seed, ctor>>

\* rng.try_fill_bytes(&mut dest)
TryFillBytes(g, dest) ==
  /\ rng[g] # None
  /\ Len(hist[g]) < MaxCalls
  /\ LET r == try_fill_bytes(Get(rng[g]), dest)
     IN /\ rng' = [rng EXCEPT ![g] = Some(r.self)]
        /\ hist' = [hist EXCEPT ![g] =
                      Append(@, CallRecord(g, "try_fill_bytes", dest, r.dest, <<>>,
                                           IF r.result.ok THEN "Ok" ELSE "Err"))]
  /\ UNCHANGED <<seed, ctor>>

\* rng.next_u32()
NextU32(g) ==
  /\ rng[g] # None
  /\ Len(hist[g]) < MaxCalls
  /\ LET r == next_u32(Get(rng[g]))
     IN /\ rng' = [rng EXCEPT ![g] = Some(r.self)]
        /\ hist' = [hist EXCEPT ![g] =
                      Append(@, CallRecord(g, "next_u32", Repeat(0, 4), r.dest, r.ret, ""))]
  /\ UNCHANGED <<seed, ctor>>

\* rng.next_u64()
NextU64(g) ==
  /\ rng[g] # None
  /\ Len(hist[g]) < MaxCalls
  /\ LET r == next_u64(Get(rng[g]))
     IN /\ rng' = [rng EXCEPT ![g] = Some(r.self)]
        /\ hist' = [hist EXCEPT ![g] =
                      Append(@, CallRecord(g, "next_u64", Repeat(0, 8), r.dest, r.ret, ""))]
  /\ UNCHANGED <<seed, ctor>>

Construct(g) ==
  \/ SeedDefault(g)
  \/ \E value \in Arrays : SeedFrom(g, value)
  \/ \E value \in Slices : SeedTryFrom(g, value)
  \/ FromSeed(g)
  \/ \E value \in Arrays : From(g, value)
  \/ \E value \in Arrays : FromRef(g, value)
  \/ \E value \in Slices : TryFrom(g, value)

Output(g) ==
  \/ \E dest \in FillDests : FillBytes(g, dest)
  \/ \E dest \in TryFillDests : TryFillBytes(g, dest)
  \/ NextU32(g)
  \/ NextU64(g)

\* One generator: construction, then output.
Next == Construct(1) \/ Output(1)

Spec == Init /\ [][Next]_vars

\* Two slots, construction only.
NextCtor == \E g \in Rngs : Construct(g)

SpecCtor == Init /\ [][NextCtor]_vars

\* Two generators on zeroed buffers.
NextPair == \E g \in Rngs : \E dest \in PairDests : FillBytes(g, dest)

SpecPair == InitPair /\ [][NextPair]_vars

(* ----- notions the properties are stated in ---------------------------- *)

Constructed(g) == rng[g] # None

\* The generator of slot g after its i-th output call (after construction for i = 0).
Post(g, i) == IF i < Len(hist[g]) THEN hist[g][i + 1].pre ELSE Get(rng[g])

Initial(g) == Post(g, 0)

\* The request lengths made on slot g, oldest first.
Lens(g) == Bytes([i \in 1..Len(hist[g]) |-> Len(hist[g][i].dest)])

\* The call was made on a zero-filled buffer.
Zeroed(e) == e.dest = Zeros(Len(e.dest))

AllZeroed(g) == \A i \in 1..Len(hist[g]) : Zeroed(hist[g][i])

\* The first k requests of g and of h have the same lengths, on zero-filled buffers.
SameRequests(g, h, k) ==
  \A i \in 1..k :
    /\ Len(hist[g][i].dest) = Len(hist[h][i].dest)
    /\ Zeroed(hist[g][i])
    /\ Zeroed(hist[h][i])

\* Both slots hold a generator, constructed from the same 48 bytes.
SameSeed(g, h) == Constructed(g) /\ Constructed(h) /\ ctor[g].input = ctor[h].input

\* The number of 16-byte blocks that n bytes reach into.
Ceil16(n) == (n + 15) \div 16

\* The counter-mode primitive constructed from a generator's (key, v).
CipherOf(st) == Aes256Ctr_new(st.key, st.v)

\* Keystream bytes 0..63 under the all-zero key and the all-zero counter.
ZStream == Keystream(Aes256Ctr_new(Zeros(KEY_LENGTH), Zeros(V_LENGTH)), 0, 64)

\* The vectors of test_all_zeros.
KAT_KEY_0 ==
  <<83, 15, 138, 251, 199, 69, 54, 185, 169, 99, 180, 241, 196, 203, 115, 139,
    206, 167, 64, 61, 77, 96, 107, 110, 7, 78, 197, 211, 186, 243, 157, 24>>

KAT_OUT_8 == <<145, 97, 143, 233, 154, 143, 148, 32>>

KAT_KEY_1 ==
  <<25, 7, 138, 157, 60, 166, 178, 160, 1, 174, 192, 185, 224, 126, 104, 11,
    175, 68, 67, 146, 42, 17, 145, 120, 251, 129, 145, 212, 201, 208, 165, 143>>

KAT_OUT_4 == <<249, 193, 41, 148>>

(* ----- the properties -------------------------------------------------- *)

C2_RawKeystream ==
  \A g \in Rngs : \A i \in 1..Len(hist[g]) :
    LET e == hist[g][i]
    IN e.out = Keystream(CipherOf(e.pre), 16, Len(e.dest))

\* C3 (Spec).  Seed-length enforcement: Seed::try_from and
\* NistPqcAes256CtrRng::try_from return Err exactly for the slices whose length is
\* not 48, an Err leaves neither a seed nor a generator, an Ok leaves the seed
\* (with the slice's bytes) resp. a generator, and no other operation, construction
\* or output, returns an error.
C3_SeedLength ==
  \A g \in Rngs :
    /\ ctor[g].op \in {"Seed::try_from", "try_from"} =>
         (ctor[g].result = "Err" <=> Len(ctor[g].input) # SEED_LENGTH)
    /\ ctor[g].result = "Err" =>
         /\ ctor[g].op \in {"Seed::try_from", "try_from"}
         /\ rng[g] = None
         /\ seed[g] = None
    /\ (ctor[g].op = "try_from" /\ ctor[g].result = "Ok") => Constructed(g)
    /\ (ctor[g].op = "Seed::try_from" /\ ctor[g].result = "Ok") =>
         seed[g] = Some(ctor[g].input)
    /\ \A i \in 1..Len(hist[g]) : hist[g][i].result # "Err"

\* try_from has refused a slice of 49 bytes.
C3_Witness ==
  /\ ctor[1].op = "try_from"
  /\ ctor[1].result = "Err"
  /\ Len(ctor[1].input) = SEED_LENGTH + 1
  /\ rng[1] = None

\* C4 (SpecCtor).  Equivalence of the construction paths: generators constructed
\* from the same 48 bytes, by from_seed on a Seed, by From<[u8; 48]>, by
\* From<&[u8; 48]> or by a successful TryFrom<&[u8]>, have the same key and the
\* same v.
C4_PathsAgree ==
  \A g \in Rngs : \A h \in Rngs :
    SameSeed(g, h) =>
      /\ Get(rng[g]).key = Get(rng[h]).key
      /\ Get(rng[g]).v = Get(rng[h]).v

\* One generator by from_seed and one by try_from, of the same seed, not all zero.
C4_Witness ==
  /\ SameSeed(1, 2)
  /\ ctor[1].input = DocSeed
  /\ ctor[1].op = "from_seed"
  /\ ctor[2].op = "try_from"

\* The two requests of C5: g asked for 8 then 4 bytes, h for 4 then 8, both
\* constructed from the same seed, all buffers zero-filled.
C5_Case(g, h) ==
  /\ SameSeed(g, h)
  /\ Lens(g) = <<8, 4>>
  /\ Lens(h) = <<4, 8>>
  /\ AllZeroed(g)
  /\ AllZeroed(h)

\* C5 as claimed (SpecPair): the two generators diverge in (key, v) after the two
\* requests.
C5_OrderDiverges ==
  \A g \in Rngs : \A h \in Rngs :
    C5_Case(g, h) => Get(rng[g]) # Get(rng[h])

\* C5 as amended (SpecPair): the two generators hold the same (key, v) after the
\* first request and after the second; a request of 4 and a request of 8 bytes both
\* end inside one keystream block and round to the same boundary.
C5_OrderAgrees ==
  \A g \in Rngs : \A h \in Rngs :
    C5_Case(g, h) =>
      /\ Post(g, 1) = Post(h, 1)
      /\ Get(rng[g]) = Get(rng[h])

C5_Witness == C5_Case(1, 2)

\* C6 (SpecPair).  Partial reads of the same block: two requests of N and M
\* bytes, 1 <= N <= M, reaching into the same number of blocks, made on zero-filled
\* buffers from the same (key, v), write outputs of which the shorter is the
\* beginning of the longer, and leave the same (key, v); the requests that follow
\* then start from the same (key, v) again.
C6_PartialReads ==
  \A g \in Rngs : \A h \in Rngs :
    \A i \in 1..Len(hist[g]) : \A j \in 1..Len(hist[h]) :
      LET a == hist[g][i]
          b == hist[h][j]
          N == Len(a.dest)
          M == Len(b.dest)
      IN (/\ a.pre = b.pre
          /\ Zeroed(a)
          /\ Zeroed(b)
          /\ 1 <= N
          /\ N <= M
          /\ Ceil16(N) = Ceil16(M)) =>
            /\ a.out = SubSeq(b.out, 1, N)
            /\ Post(g, i) = Post(h, j)

\* 8 bytes from one generator, 16 from the other, then 4 bytes from each.
C6_Witness ==
  /\ SameSeed(1, 2)
  /\ Lens(1) = <<8, 4>>
  /\ Lens(2) = <<16, 4>>
  /\ hist[1][2].out = hist[2][2].out

\* C7 (Spec).  next_u32 and next_u64 return the little-endian reading of keystream
\* bytes 16.. under the (key, v) before the call: the digit of weight 256^i of the
\* result is keystream byte 16+i, for i below 4 resp. 8; and they leave the
\* generator as fill_bytes on a buffer of 4 resp. 8 bytes leaves it.
C7_NextInts ==
  \A g \in Rngs : \A i \in 1..Len(hist[g]) :
    LET e == hist[g][i]
        n == IF e.op = "next_u32" THEN 4 ELSE 8
        b == Keystream(CipherOf(e.pre), 16, n)
    IN e.op \in {"next_u32", "next_u64"} =>
         /\ Len(e.ret) = n
         /\ \A k \in 0..(n - 1) : Digit(e.ret, k) = b[k + 1]
         /\ Post(g, i) = fill_bytes(e.pre, Zeros(n)).self

\* A next_u32 followed by a next_u64, neither result reading the same both ways.
C7_Witness ==
  /\ Len(hist[1]) = 2
  /\ hist[1][1].op = "next_u32"
  /\ hist[1][2].op = "next_u64"
  /\ hist[1][1].ret # hist[1][1].out
  /\ hist[1][2].ret # hist[1][2].out

\* C8 (SpecPair).  The known-answer vector: the all-zero seed gives the key of the
\* test; 8 bytes from that state are 91 61 8f e9 9a 8f 94 20 and leave the second
\* key of the test; 4 further bytes are f9 c1 29 94.
C8_KnownAnswer ==
  \A g \in Rngs :
    (Constructed(g) /\ ctor[g].input = ZeroSeed) =>
      /\ Initial(g).key = KAT_KEY_0
      /\ (Len(hist[g]) >= 1 /\ hist[g][1].dest = Zeros(8)) =>
           /\ hist[g][1].out = KAT_OUT_8
           /\ Post(g, 1).key = KAT_KEY_1
           /\ (Len(hist[g]) >= 2 /\ hist[g][2].dest = Zeros(4)) =>
                hist[g][2].out = KAT_OUT_4

\* The all-zero seed, then 8 bytes, then 4 bytes.
C8_Witness ==
  /\ Constructed(1)
  /\ ctor[1].input = ZeroSeed
  /\ Lens(1) = <<8, 4>>
  /\ AllZeroed(1)

\* C9 (Spec).  The reseed rule: every output call on a buffer of N >= 0 bytes
\* replaces (key, v) by keystream bytes P .. P+31 and P+32 .. P+47 under the
\* (key, v) before the call, P = 16 + 16 * ceil(N / 16) being the smallest multiple
\* of 16 that is >= 16 + N, equal to 16 + N when N is a multiple of 16; so the new
\* state lies behind the N bytes written, and behind block 0.
C9_Reseed ==
  \A g \in Rngs : \A i \in 1..Len(hist[g]) :
    LET e == hist[g][i]
        N == Len(e.dest)
        P == 16 + 16 * Ceil16(N)
        m == Keystream(CipherOf(e.pre), P, KEY_LENGTH + V_LENGTH)
    IN /\ Post(g, i).key = SubSeq(m, 1, KEY_LENGTH)
       /\ Post(g, i).v = SubSeq(m, KEY_LENGTH + 1, KEY_LENGTH + V_LENGTH)
       /\ P % 16 = 0
       /\ P >= 16 + N
       /\ P - 16 < 16 + N
       /\ (N % 16 = 0) => P = 16 + N

\* An empty request, then a request of exactly one block.
C9_Witness ==
  /\ Len(hist[1]) = 2
  /\ Lens(1) = <<0, 16>>
  /\ hist[1][1].op = "fill_bytes"

\* C10 (SpecCtor).  Seeding: the generator constructed from the 48 bytes s has
\* key[i] = s[i] xor Z[16+i] for i below 32 and v[j] = s[32+j] xor Z[48+j] for j
\* below 16, Z the keystream under the all-zero key and counter; the infallible
\* paths always construct; generators of different seeds differ in (key, v).
C10_Seeding ==
  /\ \A g \in Rngs :
       Constructed(g) =>
         LET s == ctor[g].input
             st == Initial(g)
         IN /\ Len(st.key) = KEY_LENGTH
            /\ Len(st.v) = V_LENGTH
            /\ \A i \in 0..(KEY_LENGTH - 1) : st.key[i + 1] = Xor(s[i + 1], ZStream[16 + i + 1])
            /\ \A j \in 0..(V_LENGTH - 1) :
                 st.v[j + 1] = Xor(s[KEY_LENGTH + j + 1], ZStream[48 + j + 1])
  /\ \A g \in Rngs :
       ctor[g].op \in {"from_seed", "from", "from_ref"} =>
         (ctor[g].result = "Ok" /\ Constructed(g))
  /\ \A g \in Rngs : \A h \in Rngs :
       (Constructed(g) /\ Constructed(h) /\ ctor[g].input # ctor[h].input) =>
          Initial(g) # Initial(h)

\* from_seed on the seed of the examples beside a generator of the all-zero seed.
C10_Witness ==
  /\ Constructed(1)
  /\ Constructed(2)
  /\ ctor[1].op = "from_seed"
  /\ ctor[1].input = DocSeed
  /\ ctor[2].input = ZeroSeed

====
